---- MODULE Spec2Model ----
(***************************************************************************)
(* Client work forecast dashboard: the relational store (setup_db.py),     *)
(* the data-access layer (crud.py), the REST endpoints (fx_api.py) and the *)
(* save logic of the six data-grid editors (app.py, pages/*.py).           *)
(*                                                                         *)
(* Values.  Ids and amounts are integers.  Names are strings.  A Python    *)
(* date object is written "d1", "d2", ...; its ISO text (what travels in   *)
(* a JSON body) is written "2025-11-01", ...; SQL NULL / Python None is    *)
(* "None"; pandas' missing timestamp is "NaT".                             *)
(***************************************************************************)
EXTENDS Integers, Sequences, FiniteSets, TLC

VARIABLES
    db,            \* the six tables: db[table] is a function id -> row
    serial,        \* serial[table]: last value handed out by the SERIAL key
    resp,          \* the last response an API endpoint produced
    calls,         \* number of direct API requests made so far (bounded)
    page,          \* the editor page of the browser session ("none" before a page is opened)
    original,      \* the data frame fetched from the API (id -> row)
    edited,        \* the data frame the st.data_editor widget returns
    pc,            \* the page script: "idle", "editing", "saving", "rerun" (st.rerun() called),
                   \* "raised" (ended by an exception)
    updates,       \* ids whose update request is still to be dispatched in this save
    deletions,     \* ids whose delete request is still to be dispatched in this save
    update_count,  \* the save's update_count
    delete_count,  \* the save's delete_count
    messages,      \* the errors and warnings the save displayed (st.error, st.warning)
    summary,       \* the closing message of the save (st.success or st.info)
    sent,          \* the requests this save dispatched, in order, each with the
                   \* status of its response (0: no response, the request raised)
    edits,         \* number of edits made in the data editors so far (bounded)
    others,        \* number of requests other clients made so far (bounded)
    framework,     \* what the installed FastAPI does with an exception that
                   \* get_db_conn caught at its yield: "reraises" or "suppresses"
    db_pool,       \* database.db_pool: the pool the module global names, or NoPool
    pools,         \* the connection pools that exist: created and not closed
    conns,         \* the connections taken from a pool and not put back, each
                   \* as <<thread, pool>>
    thread,        \* the request threads: where each is in get_db_conn
    process,       \* the API process: its state and its exit status
    config         \* the deployment: the secrets file and whether the server
                   \* runs the startup and shutdown events

procVars == <<db_pool, pools, conns, thread, process, config>>

vars == <<db, serial, resp, calls, page, original, edited, pc, updates, deletions,
          update_count, delete_count, messages, summary, sent, edits, others,
          framework, procVars>>

storeVars == <<db, serial, resp>>

uiVars == <<page, original, edited, pc, updates, deletions,
            update_count, delete_count, messages, summary, sent, edits>>

-----------------------------------------------------------------------------
(* Bounds of the model *)

\* requests made to the API on its own (specification Spec)
MaxCalls == 2
\* cell edits, row removals and row additions made in the data editors
MaxEdits == 2
\* requests other clients make while a browser session is editing
MaxOthers == 1
\* request threads of the API process (specification SpecPool)
MaxThreads == 2

-----------------------------------------------------------------------------
(* Value sets *)

None == "None"
NaT == "NaT"

Tables == {"verticals", "work_type_origin_types", "units", "work_types", "clients", "forecasts"}

Names == {"a", "b", "c"}
Dates == {"d1", "d2", "d3"}

\* date.isoformat() and the parse pydantic does of a JSON date
isoformat(d) ==
    CASE d = "d1" -> "2025-11-01"
      [] d = "d2" -> "2025-12-01"
      [] d = "d3" -> "2026-01-01"

fromisoformat(s) ==
    CASE s = "2025-11-01" -> "d1"
      [] s = "2025-12-01" -> "d2"
      [] s = "2026-01-01" -> "d3"
      [] OTHER -> None

IsoDates == {isoformat(d) : d \in Dates}

\* pandas.isna / pandas.notna on a cell
isna(v) == v \in {None, NaT}
notna(v) == ~isna(v)

\* an empty numeric cell of a data frame; no id and no amount equals it
NaN == -1

\* the index label of a row appended in the data editor: its disabled id cell is empty
NewRowId == NaN

-----------------------------------------------------------------------------
(* The relational schema: setup_db.py, CREATE_TABLES_SQL *)

\* the SERIAL PRIMARY KEY column of each table
IdField(t) ==
    CASE t = "verticals" -> "business_vertical_id"
      [] t = "work_type_origin_types" -> "work_type_origin_type_id"
      [] t = "units" -> "business_unit_id"
      [] t = "work_types" -> "work_type_id"
      [] t = "clients" -> "client_id"
      [] t = "forecasts" -> "forecast_id"

\* the UNIQUE constraint of each table, as the columns it spans
UniqueColumns(t) ==
    CASE t = "verticals" -> {"business_vertical_name"}
      [] t = "work_type_origin_types" -> {"work_type_origin_type_name"}
      [] t = "units" -> {"business_unit_name"}
      [] t = "work_types" -> {"work_type_name"}
      [] t = "clients" -> {"client_name"}
      [] t = "forecasts" -> {"business_unit_id", "client_id", "work_type_id", "dt"}

\* REFERENCES clauses: <<child table, column, parent table>>
References ==
    { <<"units", "business_vertical_id", "verticals">>,
      <<"work_types", "work_type_origin_type_id", "work_type_origin_types">>,
      <<"clients", "business_unit_id", "units">>,
      <<"forecasts", "client_id", "clients">>,
      <<"forecasts", "business_unit_id", "units">>,
      <<"forecasts", "work_type_id", "work_types">> }

\* a row of table t with the same values in every column of t's UNIQUE constraint
UniqueViolation(d, t, id, row) ==
    \E j \in DOMAIN d[t] \ {id} :
        \A c \in UniqueColumns(t) : d[t][j][c] = row[c]

\* a foreign key of the written row that references no row
ForeignKeyViolationOnWrite(d, t, row) ==
    \E r \in References : r[1] = t /\ row[r[2]] \notin DOMAIN d[r[3]]

\* a DELETE that no REFERENCES clause restrains
ForeignKeyViolationOnDelete_unchecked(d, t, id) == FALSE

\* a row of a child table that still references row id of table t
ForeignKeyViolationOnDelete(d, t, id) ==
    \E r \in References :
        r[3] = t /\ \E j \in DOMAIN d[r[1]] : d[r[1]][j][r[2]] = id

\* a name of more than 255 characters
LongName == "long"

\* the VARCHAR(255) columns of each table
VarcharColumns(t) ==
    IF t = "forecasts" THEN {"forecast_name"} ELSE UniqueColumns(t)

\* a value of the written row that its VARCHAR(255) column cannot hold
StringDataRightTruncation(t, row) ==
    \E c \in VarcharColumns(t) \cap DOMAIN row : row[c] = LongName

\* the row as SELECT * / RETURNING * gives it: the columns plus the key
WithId(t, id, row) ==
    [c \in DOMAIN row \cup {IdField(t)} |-> IF c = IdField(t) THEN id ELSE row[c]]

NoRow == [none |-> TRUE]

\* INSERT ... RETURNING *, then commit.  nextval() is taken before the
\* constraints are checked and is not given back when the statement fails.
Insert(d, s, t, row) ==
    LET id == s[t] + 1
        s2 == [s EXCEPT ![t] = id]
    IN  IF StringDataRightTruncation(t, row)
        THEN [exc |-> "StringDataRightTruncation", row |-> NoRow, db |-> d,
              serial |-> s2]
        ELSE IF UniqueViolation(d, t, id, row)
        THEN [exc |-> "UniqueViolation", row |-> NoRow, db |-> d, serial |-> s2]
        ELSE IF ForeignKeyViolationOnWrite(d, t, row)
        THEN [exc |-> "ForeignKeyViolation", row |-> NoRow, db |-> d, serial |-> s2]
        ELSE [exc |-> "none", row |-> WithId(t, id, row),
              db |-> [d EXCEPT ![t] = [j \in DOMAIN d[t] \cup {id} |->
                                          IF j = id THEN row ELSE d[t][j]]],
              serial |-> s2]

\* UPDATE t SET <the columns of set> WHERE id = ... RETURNING *, then commit.
\* fetchone() is None when no row has the id.
Update(d, t, id, set) ==
    IF id \notin DOMAIN d[t]
    THEN [exc |-> "none", row |-> NoRow, db |-> d]
    ELSE LET new == [c \in DOMAIN d[t][id] |->
                        IF c \in DOMAIN set THEN set[c] ELSE d[t][id][c]]
         IN  IF StringDataRightTruncation(t, set)
             THEN [exc |-> "StringDataRightTruncation", row |-> NoRow, db |-> d]
             ELSE IF UniqueViolation(d, t, id, new)
             THEN [exc |-> "UniqueViolation", row |-> NoRow, db |-> d]
             ELSE IF ForeignKeyViolationOnWrite(d, t, new)
             THEN [exc |-> "ForeignKeyViolation", row |-> NoRow, db |-> d]
             ELSE [exc |-> "none", row |-> WithId(t, id, new),
                   db |-> [d EXCEPT ![t][id] = new]]

\* DELETE FROM t WHERE id = ... RETURNING *, then commit
Delete(d, t, id) ==
    IF id \notin DOMAIN d[t]
    THEN [exc |-> "none", row |-> NoRow, db |-> d]
    ELSE IF ForeignKeyViolationOnDelete(d, t, id)
    THEN [exc |-> "ForeignKeyViolation", row |-> NoRow, db |-> d]
    ELSE [exc |-> "none", row |-> WithId(t, id, d[t][id]),
          db |-> [d EXCEPT ![t] = [j \in DOMAIN d[t] \ {id} |-> d[t][j]]]]

\* SELECT * FROM t WHERE id = ...; fetchone() is None when no row has the id
Select(d, t, id) ==
    IF id \in DOMAIN d[t] THEN WithId(t, id, d[t][id]) ELSE NoRow

\* SELECT * FROM t LIMIT limit OFFSET skip, with no ORDER BY: some limit rows
\* of the table; here every row, the tables being shorter than the default limit
SelectAll(d, t) == {WithId(t, id, d[t][id]) : id \in DOMAIN d[t]}

-----------------------------------------------------------------------------
(* crud.py *)

crud_create_business_vertical(d, s, vertical) ==
    Insert(d, s, "verticals",
           [business_vertical_name |-> vertical.business_vertical_name])

crud_get_business_vertical(d, vertical_id) == Select(d, "verticals", vertical_id)

crud_create_business_unit(d, s, unit) ==
    Insert(d, s, "units",
           [business_unit_name |-> unit.business_unit_name,
            business_vertical_id |-> unit.business_vertical_id])

crud_get_business_unit(d, unit_id) == Select(d, "units", unit_id)

\* an INSERT that leaves the end date out
crud_create_client_without_end_date(d, s, client) ==
    Insert(d, s, "clients",
           [client_name |-> client.client_name,
            client_active |-> client.client_active,
            client_start_date |-> client.client_start_date,
            client_end_date |-> None,
            business_unit_id |-> client.business_unit_id])

crud_create_client(d, s, client) ==
    Insert(d, s, "clients",
           [client_name |-> client.client_name,
            client_active |-> client.client_active,
            client_start_date |-> client.client_start_date,
            client_end_date |-> client.client_end_date,
            business_unit_id |-> client.business_unit_id])

crud_get_client(d, client_id) == Select(d, "clients", client_id)

crud_create_work_type(d, s, work_type) ==
    Insert(d, s, "work_types",
           [work_type_name |-> work_type.work_type_name,
            work_type_origin_type_id |-> work_type.work_type_origin_type_id])

crud_get_work_type(d, work_type_id) == Select(d, "work_types", work_type_id)

crud_get_work_type_origin_type(d, origin_type_id) ==
    Select(d, "work_type_origin_types", origin_type_id)

crud_create_work_type_origin_type(d, s, origin_type) ==
    Insert(d, s, "work_type_origin_types",
           [work_type_origin_type_name |-> origin_type.work_type_origin_type_name])

crud_update_business_vertical(d, vertical_id, vertical) ==
    Update(d, "verticals", vertical_id,
           [business_vertical_name |-> vertical.business_vertical_name])

crud_delete_business_vertical(d, vertical_id) == Delete(d, "verticals", vertical_id)

crud_update_business_unit(d, unit_id, unit) ==
    Update(d, "units", unit_id,
           [business_unit_name |-> unit.business_unit_name,
            business_vertical_id |-> unit.business_vertical_id])

crud_delete_business_unit(d, unit_id) == Delete(d, "units", unit_id)

\* an UPDATE that also moves the client's forecasts to the client's new unit
crud_update_client_cascading(d, client_id, client) ==
    LET r == Update(d, "clients", client_id,
                    [client_name |-> client.client_name,
                     client_active |-> client.client_active,
                     client_start_date |-> client.client_start_date,
                     client_end_date |-> client.client_end_date,
                     business_unit_id |-> client.business_unit_id])
    IN  IF r.exc # "none" \/ r.row = NoRow THEN r
        ELSE [r EXCEPT !.db.forecasts =
                 [j \in DOMAIN d.forecasts |->
                     IF d.forecasts[j].client_id = client_id
                     THEN [d.forecasts[j] EXCEPT
                              !.business_unit_id = client.business_unit_id]
                     ELSE d.forecasts[j]]]

crud_update_client(d, client_id, client) ==
    Update(d, "clients", client_id,
           [client_name |-> client.client_name,
            client_active |-> client.client_active,
            client_start_date |-> client.client_start_date,
            client_end_date |-> client.client_end_date,
            business_unit_id |-> client.business_unit_id])

crud_delete_client(d, client_id) == Delete(d, "clients", client_id)

crud_update_work_type(d, work_type_id, work_type) ==
    Update(d, "work_types", work_type_id,
           [work_type_name |-> work_type.work_type_name,
            work_type_origin_type_id |-> work_type.work_type_origin_type_id])

crud_delete_work_type(d, work_type_id) == Delete(d, "work_types", work_type_id)

crud_update_work_type_origin_type(d, origin_type_id, origin_type) ==
    Update(d, "work_type_origin_types", origin_type_id,
           [work_type_origin_type_name |-> origin_type.work_type_origin_type_name])

crud_delete_work_type_origin_type(d, origin_type_id) ==
    Delete(d, "work_type_origin_types", origin_type_id)

crud_create_forecast(d, s, forecast) ==
    Insert(d, s, "forecasts",
           [client_id |-> forecast.client_id,
            business_unit_id |-> forecast.business_unit_id,
            work_type_id |-> forecast.work_type_id,
            dt |-> forecast.dt,
            forecast_amount |-> forecast.forecast_amount,
            forecast_name |-> forecast.forecast_name])
\* an UPDATE that also sets a column of the forecast's key
crud_update_forecast_amount_and_key(d, forecast_id, forecast_update) ==
    Update(d, "forecasts", forecast_id,
           [forecast_amount |-> forecast_update.forecast_amount, work_type_id |-> 2])

\* an UPDATE that stores a row under the id when no row has it
crud_update_forecast_amount_upsert(d, forecast_id, forecast_update) ==
    IF forecast_id \in DOMAIN d.forecasts
    THEN Update(d, "forecasts", forecast_id,
                [forecast_amount |-> forecast_update.forecast_amount])
    ELSE LET row == [forecast_name |-> None, client_id |-> 1, business_unit_id |-> 1,
                     work_type_id |-> 1, dt |-> "d1",
                     forecast_amount |-> forecast_update.forecast_amount]
         IN  [exc |-> "none", row |-> WithId("forecasts", forecast_id, row),
              db |-> [d EXCEPT !.forecasts =
                         [j \in DOMAIN d.forecasts \cup {forecast_id} |->
                             IF j = forecast_id THEN row ELSE d.forecasts[j]]]]

crud_update_forecast_amount(d, forecast_id, forecast_update) ==
    Update(d, "forecasts", forecast_id,
           [forecast_amount |-> forecast_update.forecast_amount])

crud_delete_forecast(d, forecast_id) == Delete(d, "forecasts", forecast_id)

\* the place of a name or a date in the order the database sorts by
Collation(v) ==
    CASE v \in {"a", "d1"} -> 1
      [] v \in {"b", "d2"} -> 2
      [] v \in {"c", "d3"} -> 3

\* the row of the join for forecast id: the forecast with the names of its
\* client, its work type, its business unit and that unit's vertical
Joined(d, id) ==
    LET f == d.forecasts[id]
        bu == d.units[f.business_unit_id]
    IN  [forecast_id |-> id,
         business_vertical_name |->
             d.verticals[bu.business_vertical_id].business_vertical_name,
         business_unit_name |-> bu.business_unit_name,
         client_name |-> d.clients[f.client_id].client_name,
         work_type_name |-> d.work_types[f.work_type_id].work_type_name,
         dt |-> f.dt,
         forecast_amount |-> f.forecast_amount]

\* an ORDER BY that sorts by the id
OrderByColumns_by_id == <<"forecast_id">>

\* the ORDER BY list of get_forecasts, in its order
OrderByColumns ==
    <<"business_vertical_name", "business_unit_name", "client_name",
      "work_type_name", "dt">>

SortValue(row, c) == IF c = "forecast_id" THEN row[c] ELSE Collation(row[c])

\* row x is not after row y under ORDER BY cols
RECURSIVE NotAfter(_, _, _)
NotAfter(x, y, cols) ==
    IF cols = <<>> THEN TRUE
    ELSE LET c == Head(cols)
         IN  \/ SortValue(x, c) < SortValue(y, c)
             \/ /\ SortValue(x, c) = SortValue(y, c)
                /\ NotAfter(x, y, Tail(cols))

\* the rows in the order of ORDER BY cols
RECURSIVE OrderBy(_, _)
OrderBy(rows, cols) ==
    IF rows = {} THEN <<>>
    ELSE LET first == CHOOSE x \in rows : \A y \in rows : NotAfter(x, y, cols)
         IN  <<first>> \o OrderBy(rows \ {first}, cols)

\* LIMIT limit OFFSET skip
LimitOffset(rows, limit, skip) ==
    SubSeq(rows, skip + 1, IF skip + limit < Len(rows) THEN skip + limit ELSE Len(rows))

crud_get_forecasts(d, skip, limit) ==
    LimitOffset(OrderBy({Joined(d, id) : id \in DOMAIN d.forecasts}, OrderByColumns),
                limit, skip)

-----------------------------------------------------------------------------
(* schemas.py: the request bodies.  A body is the JSON object of the request; *)
(* the model keeps the declared fields (extra fields are ignored), fills in   *)
(* the defaults and parses ISO dates; a body lacking a required field is      *)
(* rejected before the endpoint runs.                                         *)

ValidationError == [validation_error |-> TRUE]

Has(body, fields) == \A f \in fields : f \in DOMAIN body /\ body[f] # None

BusinessVerticalCreate(body) ==
    IF Has(body, {"business_vertical_name"})
    THEN [business_vertical_name |-> body.business_vertical_name]
    ELSE ValidationError

BusinessUnitCreate(body) ==
    IF Has(body, {"business_unit_name"}) /\ "business_vertical_id" \in DOMAIN body
    THEN [business_unit_name |-> body.business_unit_name,
          business_vertical_id |-> body.business_vertical_id]
    ELSE ValidationError

ClientCreate(body) ==
    IF /\ Has(body, {"client_name", "client_start_date"})
       /\ "business_unit_id" \in DOMAIN body
       /\ fromisoformat(body.client_start_date) # None
       /\ "client_end_date" \in DOMAIN body /\ body.client_end_date # None
             => fromisoformat(body.client_end_date) # None
    THEN [client_name |-> body.client_name,
          client_active |-> IF "client_active" \in DOMAIN body
                            THEN body.client_active ELSE TRUE,
          client_start_date |-> fromisoformat(body.client_start_date),
          client_end_date |-> IF "client_end_date" \in DOMAIN body
                                 /\ body.client_end_date # None
                              THEN fromisoformat(body.client_end_date) ELSE None,
          business_unit_id |-> body.business_unit_id]
    ELSE ValidationError

WorkTypeOriginTypeCreate(body) ==
    IF Has(body, {"work_type_origin_type_name"})
    THEN [work_type_origin_type_name |-> body.work_type_origin_type_name]
    ELSE ValidationError

WorkTypeCreate(body) ==
    IF Has(body, {"work_type_name"}) /\ "work_type_origin_type_id" \in DOMAIN body
    THEN [work_type_name |-> body.work_type_name,
          work_type_origin_type_id |-> body.work_type_origin_type_id]
    ELSE ValidationError

ForecastCreate(body) ==
    IF /\ {"client_id", "business_unit_id", "work_type_id", "forecast_amount"}
             \subseteq DOMAIN body
       /\ Has(body, {"dt"})
       /\ fromisoformat(body.dt) # None
    THEN [client_id |-> body.client_id,
          business_unit_id |-> body.business_unit_id,
          work_type_id |-> body.work_type_id,
          dt |-> fromisoformat(body.dt),
          forecast_amount |-> body.forecast_amount,
          forecast_name |-> IF "forecast_name" \in DOMAIN body
                            THEN body.forecast_name ELSE None]
    ELSE ValidationError

ForecastUpdate(body) ==
    IF "forecast_amount" \in DOMAIN body
    THEN [forecast_amount |-> body.forecast_amount]
    ELSE ValidationError

-----------------------------------------------------------------------------
(* fx_api.py: the endpoints.  Each gives the response and the store after   *)
(* the request.  An exception no except clause of the endpoint names leaves *)
(* the endpoint and is answered 500.                                        *)

Response(status, detail, body, d) ==
    [status |-> status, detail |-> detail, body |-> body, db |-> d]

\* the response body: the row validated by the response model and written as
\* JSON, its dates in ISO text
DateColumns == {"client_start_date", "client_end_date", "dt"}

jsonable(row) ==
    IF row = NoRow THEN NoRow
    ELSE [c \in DOMAIN row |->
            IF c \in DateColumns /\ row[c] # None THEN isoformat(row[c]) ELSE row[c]]

\* str(e) of an exception psycopg2 raised: the text of the database's error
DatabaseErrorText(exc) ==
    IF exc = "StringDataRightTruncation"
    THEN "value too long for type character varying(255)"
    ELSE exc

\* the try/except of the create endpoints: UniqueViolation is answered 400,
\* ForeignKeyViolation 404, any other exception 500 with detail=str(e)
Created(valid, r, d, s, duplicate, reference) ==
    IF ~valid
    THEN [status |-> 422, detail |-> "validation error", body |-> NoRow,
          db |-> d, serial |-> s]
    ELSE [status |-> CASE r.exc = "none" -> 200
                       [] r.exc = "UniqueViolation" -> 400
                       [] r.exc = "ForeignKeyViolation" -> 404
                       [] OTHER -> 500,
          detail |-> CASE r.exc = "none" -> ""
                       [] r.exc = "UniqueViolation" -> duplicate
                       [] r.exc = "ForeignKeyViolation" -> reference
                       [] OTHER -> DatabaseErrorText(r.exc),
          body |-> jsonable(r.row), db |-> r.db, serial |-> r.serial]

\* a GET endpoint: the row, or the endpoint's status for a missing row
Read(row, d, missing, detail) ==
    IF row = NoRow THEN Response(missing, detail, NoRow, d)
    ELSE Response(200, "", jsonable(row), d)

create_vertical(d, s, body) ==
    LET vertical == BusinessVerticalCreate(body)
    IN  Created(vertical # ValidationError, crud_create_business_vertical(d, s, vertical),
                d, s, "Business vertical name already exists.", "ForeignKeyViolation")

read_vertical(d, vertical_id) ==
    Read(crud_get_business_vertical(d, vertical_id), d, 404, "Business vertical not found")

create_unit(d, s, body) ==
    LET unit == BusinessUnitCreate(body)
    IN  Created(unit # ValidationError, crud_create_business_unit(d, s, unit),
                d, s, "Business unit name already exists.", "Business vertical not found.")

read_unit(d, unit_id) ==
    Read(crud_get_business_unit(d, unit_id), d, 44, "Business unit not found")

create_client(d, s, body) ==
    LET client == ClientCreate(body)
    IN  Created(client # ValidationError, crud_create_client(d, s, client),
                d, s, "Client name already exists.", "Business unit not found.")

read_client(d, client_id) ==
    Read(crud_get_client(d, client_id), d, 404, "Client not found")

create_work_type(d, s, body) ==
    LET work_type == WorkTypeCreate(body)
    IN  Created(work_type # ValidationError, crud_create_work_type(d, s, work_type),
                d, s, "Work type name already exists.", "Work type origin not found.")

create_work_type_origin_type(d, s, body) ==
    LET origin_type == WorkTypeOriginTypeCreate(body)
    IN  Created(origin_type # ValidationError,
                crud_create_work_type_origin_type(d, s, origin_type),
                d, s, "Work type origin name already exists.", "ForeignKeyViolation")

Unprocessable(d) == Response(422, "validation error", NoRow, d)
InternalServerError(d) == Response(500, "Internal Server Error", NoRow, d)

update_vertical(d, vertical_id, body) ==
    LET vertical == BusinessVerticalCreate(body)
        r == crud_update_business_vertical(d, vertical_id, vertical)
    IN  IF vertical = ValidationError THEN Unprocessable(d)
        ELSE IF r.exc = "UniqueViolation"
        THEN Response(400, "Business vertical name already exists.", NoRow, r.db)
        ELSE IF r.exc # "none" THEN InternalServerError(r.db)
        ELSE IF r.row = NoRow
        THEN Response(404, "Business vertical not found", NoRow, r.db)
        ELSE Response(200, "", jsonable(r.row), r.db)

delete_vertical(d, vertical_id) ==
    LET r == crud_delete_business_vertical(d, vertical_id)
    IN  IF r.exc = "ForeignKeyViolation"
        THEN Response(400, "Cannot delete vertical, it is referenced by business units.",
                      NoRow, r.db)
        ELSE IF r.exc # "none" THEN InternalServerError(r.db)
        ELSE IF r.row = NoRow
        THEN Response(404, "Business vertical not found", NoRow, r.db)
        ELSE Response(200, "", jsonable(r.row), r.db)

update_unit(d, unit_id, body) ==
    LET unit == BusinessUnitCreate(body)
        r == crud_update_business_unit(d, unit_id, unit)
    IN  IF unit = ValidationError THEN Unprocessable(d)
        ELSE IF r.exc = "UniqueViolation"
        THEN Response(400, "Business unit name already exists.", NoRow, r.db)
        ELSE IF r.exc = "ForeignKeyViolation"
        THEN Response(404, "Business vertical not found.", NoRow, r.db)
        ELSE IF r.row = NoRow
        THEN Response(404, "Business unit not found", NoRow, r.db)
        ELSE Response(200, "", jsonable(r.row), r.db)

delete_unit(d, unit_id) ==
    LET r == crud_delete_business_unit(d, unit_id)
    IN  IF r.exc = "ForeignKeyViolation"
        THEN Response(400, "Cannot delete unit, it is referenced by clients.", NoRow, r.db)
        ELSE IF r.exc # "none" THEN InternalServerError(r.db)
        ELSE IF r.row = NoRow
        THEN Response(404, "Business unit not found", NoRow, r.db)
        ELSE Response(200, "", jsonable(r.row), r.db)

update_client(d, client_id, body) ==
    LET client == ClientCreate(body)
        r == crud_update_client(d, client_id, client)
    IN  IF client = ValidationError THEN Unprocessable(d)
        ELSE IF r.exc = "UniqueViolation"
        THEN Response(400, "Client name already exists.", NoRow, r.db)
        ELSE IF r.exc = "ForeignKeyViolation"
        THEN Response(404, "Business unit not found.", NoRow, r.db)
        ELSE IF r.row = NoRow
        THEN Response(404, "Client not found", NoRow, r.db)
        ELSE Response(200, "", jsonable(r.row), r.db)

delete_client(d, client_id) ==
    LET r == crud_delete_client(d, client_id)
    IN  IF r.exc = "ForeignKeyViolation"
        THEN Response(400, "Cannot delete client, it is referenced by forecasts.",
                      NoRow, r.db)
        ELSE IF r.exc # "none" THEN InternalServerError(r.db)
        ELSE IF r.row = NoRow
        THEN Response(44, "Client not found", NoRow, r.db)
        ELSE Response(200, "", jsonable(r.row), r.db)

update_work_type(d, work_type_id, body) ==
    LET work_type == WorkTypeCreate(body)
        r == crud_update_work_type(d, work_type_id, work_type)
    IN  IF work_type = ValidationError THEN Unprocessable(d)
        ELSE IF r.exc = "UniqueViolation"
        THEN Response(400, "Work type name already exists.", NoRow, r.db)
        ELSE IF r.exc = "ForeignKeyViolation"
        THEN Response(404, "Work type origin not found.", NoRow, r.db)
        ELSE IF r.row = NoRow
        THEN Response(404, "Work type not found", NoRow, r.db)
        ELSE Response(200, "", jsonable(r.row), r.db)

delete_work_type(d, work_type_id) ==
    LET r == crud_delete_work_type(d, work_type_id)
    IN  IF r.exc = "ForeignKeyViolation"
        THEN Response(400, "Cannot delete work type, it is referenced by forecasts.",
                      NoRow, r.db)
        ELSE IF r.exc # "none" THEN InternalServerError(r.db)
        ELSE IF r.row = NoRow
        THEN Response(404, "Work type not found", NoRow, r.db)
        ELSE Response(200, "", jsonable(r.row), r.db)

update_work_type_origin_type(d, origin_type_id, body) ==
    LET origin_type == WorkTypeOriginTypeCreate(body)
        r == crud_update_work_type_origin_type(d, origin_type_id, origin_type)
    IN  IF origin_type = ValidationError THEN Unprocessable(d)
        ELSE IF r.exc = "UniqueViolation"
        THEN Response(400, "Work type origin name already exists.", NoRow, r.db)
        ELSE IF r.exc # "none" THEN InternalServerError(r.db)
        ELSE IF r.row = NoRow
        THEN Response(404, "Work type origin not found", NoRow, r.db)
        ELSE Response(200, "", jsonable(r.row), r.db)

delete_work_type_origin_type(d, origin_type_id) ==
    LET r == crud_delete_work_type_origin_type(d, origin_type_id)
    IN  IF r.exc = "ForeignKeyViolation"
        THEN Response(400, "Cannot delete, it is referenced by work types.", NoRow, r.db)
        ELSE IF r.exc # "none" THEN InternalServerError(r.db)
        ELSE IF r.row = NoRow
        THEN Response(404, "Work type origin not found", NoRow, r.db)
        ELSE Response(200, "", jsonable(r.row), r.db)

create_forecast(d, s, body) ==
    LET forecast == ForecastCreate(body)
    IN  Created(forecast # ValidationError, crud_create_forecast(d, s, forecast),
                d, s, "This forecast (client, BU, work type, date) already exists.",
                "Invalid foreign key")

update_forecast(d, forecast_id, body) ==
    LET forecast_update == ForecastUpdate(body)
        r == crud_update_forecast_amount(d, forecast_id, forecast_update)
    IN  IF forecast_update = ValidationError THEN Unprocessable(d)
        ELSE IF r.exc # "none" THEN InternalServerError(r.db)
        ELSE IF r.row = NoRow
        THEN Response(404, "Forecast not found", NoRow, r.db)
        ELSE Response(200, "", jsonable(r.row), r.db)

delete_forecast(d, forecast_id) ==
    LET r == crud_delete_forecast(d, forecast_id)
    IN  IF r.exc # "none" THEN InternalServerError(r.db)
        ELSE IF r.row = NoRow
        THEN Response(404, "Forecast not found", NoRow, r.db)
        ELSE Response(200, "", jsonable(r.row), r.db)

\* GET /forecasts/: the rows of crud.get_forecasts, each as JSON
read_forecasts(d, skip, limit) ==
    LET forecasts == crud_get_forecasts(d, skip, limit)
    IN  Response(200, "", [rows |-> [i \in DOMAIN forecasts |-> jsonable(forecasts[i])]], d)

\* database.py get_db_conn: the endpoint runs at the yield.  An exception that
\* leaves the endpoint (an HTTPException it raised, or one it did not catch) is
\* thrown into the generator at the yield, caught there by
\* except (Exception, psycopg2.DatabaseError), printed, and not raised again.
\* FastAPI before 0.110 raises the endpoint's exception again by itself, so the
\* caller gets the response the exception stands for; FastAPI from 0.110 on
\* finds the exception suppressed and no response returned, and answers 500.
\* A 200 is returned, not raised; a 422 is produced before the endpoint runs.
Frameworks == {"reraises", "suppresses"}

get_db_conn(r) ==
    IF framework = "suppresses" /\ r.status \notin {200, 422}
    THEN [r EXCEPT !.status = 500, !.detail = "Internal Server Error", !.body = NoRow]
    ELSE r

\* PUT /<table>/<id> and DELETE /<table>/<id>, routed to the endpoint
Put(d, t, id, body) ==
  get_db_conn(
    CASE t = "verticals" -> update_vertical(d, id, body)
      [] t = "units" -> update_unit(d, id, body)
      [] t = "clients" -> update_client(d, id, body)
      [] t = "work_types" -> update_work_type(d, id, body)
      [] t = "work_type_origin_types" -> update_work_type_origin_type(d, id, body)
      [] t = "forecasts" -> update_forecast(d, id, body))

DeleteRequest(d, t, id) ==
  get_db_conn(
    CASE t = "verticals" -> delete_vertical(d, id)
      [] t = "units" -> delete_unit(d, id)
      [] t = "clients" -> delete_client(d, id)
      [] t = "work_types" -> delete_work_type(d, id)
      [] t = "work_type_origin_types" -> delete_work_type_origin_type(d, id)
      [] t = "forecasts" -> delete_forecast(d, id))

\* POST /<table>/, routed to the endpoint
Post(d, s, t, body) ==
  get_db_conn(
    CASE t = "verticals" -> create_vertical(d, s, body)
      [] t = "units" -> create_unit(d, s, body)
      [] t = "clients" -> create_client(d, s, body)
      [] t = "work_types" -> create_work_type(d, s, body)
      [] t = "work_type_origin_types" -> create_work_type_origin_type(d, s, body)
      [] t = "forecasts" -> create_forecast(d, s, body))

\* the tables whose path /<table>/{id} has a GET route
ReadableById == {"verticals", "units", "clients"}

\* GET /<table>/<id>.  Where the path has PUT and DELETE routes only, the
\* router answers 405 and no endpoint runs.
Get(d, t, id) ==
    CASE t = "verticals" -> get_db_conn(read_vertical(d, id))
      [] t = "units" -> get_db_conn(read_unit(d, id))
      [] t = "clients" -> get_db_conn(read_client(d, id))
      [] OTHER -> Response(405, "Method Not Allowed", NoRow, d)

-----------------------------------------------------------------------------
(* The initial store: the sample data of setup_db.py, cut down *)

InitDb ==
    [verticals |-> (1 :> [business_vertical_name |-> "a"]) @@
                   (2 :> [business_vertical_name |-> "b"]),
     work_type_origin_types |->
                   (1 :> [work_type_origin_type_name |-> "a"]) @@
                   (2 :> [work_type_origin_type_name |-> "b"]),
     units |->     (1 :> [business_unit_name |-> "a", business_vertical_id |-> 1]) @@
                   (2 :> [business_unit_name |-> "b", business_vertical_id |-> 1]),
     work_types |-> (1 :> [work_type_name |-> "a", work_type_origin_type_id |-> 1]) @@
                    (2 :> [work_type_name |-> "b", work_type_origin_type_id |-> 1]),
     clients |->   (1 :> [client_name |-> "a", client_active |-> TRUE,
                          client_start_date |-> "d1", client_end_date |-> None,
                          business_unit_id |-> 1]) @@
                   (2 :> [client_name |-> "b", client_active |-> TRUE,
                          client_start_date |-> "d1", client_end_date |-> "d2",
                          business_unit_id |-> 1]),
     forecasts |-> (1 :> [forecast_name |-> None, client_id |-> 1, business_unit_id |-> 1,
                          work_type_id |-> 1, dt |-> "d1", forecast_amount |-> 100]) @@
                   (2 :> [forecast_name |-> None, client_id |-> 1, business_unit_id |-> 1,
                          work_type_id |-> 1, dt |-> "d2", forecast_amount |-> 200]) @@
                   (3 :> [forecast_name |-> None, client_id |-> 1, business_unit_id |-> 1,
                          work_type_id |-> 1, dt |-> "d3", forecast_amount |-> 300])]

InitSerial == [t \in Tables |-> Cardinality(DOMAIN InitDb[t])]

NoResponse == [method |-> "", table |-> "", id |-> 0, request |-> NoRow,
               status |-> 0, detail |-> "", body |-> NoRow]

\* a request with the response it got
Exchange(method, t, id, body, r) ==
    [method |-> method, table |-> t, id |-> id, request |-> body,
     status |-> r.status, detail |-> r.detail, body |-> r.body]

-----------------------------------------------------------------------------
(* The browser session: fetching *)

\* crud.get_forecasts: the forecast joined with the names of its client, work
\* type, business unit and that unit's vertical
ForecastDetail(d, id) ==
    LET f == d.forecasts[id]
        bu == d.units[f.business_unit_id]
    IN  [business_vertical_name |->
             d.verticals[bu.business_vertical_id].business_vertical_name,
         business_unit_name |-> bu.business_unit_name,
         client_name |-> d.clients[f.client_id].client_name,
         work_type_name |-> d.work_types[f.work_type_id].work_type_name,
         dt |-> isoformat(f.dt),
         forecast_amount |-> f.forecast_amount]

\* app.py fetch_all_forecasts: GET /forecasts/, dt converted to date objects
fetch_all_forecasts(d) ==
    [id \in DOMAIN d.forecasts |->
        [ForecastDetail(d, id) EXCEPT !.dt = fromisoformat(@)]]

\* the JSON of a client row: dates in ISO text, a NULL end date as null
ClientJson(row) ==
    [row EXCEPT !.client_start_date = isoformat(@),
                !.client_end_date = IF @ = None THEN None ELSE isoformat(@)]

\* pages/*.py fetch_lookup_tables: GET /<endpoint>/; on the clients page the two
\* date columns are converted, a null end date becoming NaT
fetch_lookup_tables(d, endpoint_name) ==
    IF endpoint_name = "clients"
    THEN [id \in DOMAIN d.clients |->
            [ClientJson(d.clients[id]) EXCEPT
                !.client_start_date = fromisoformat(@),
                !.client_end_date = IF @ = None THEN NaT ELSE fromisoformat(@)]]
    ELSE d[endpoint_name]

Fetch(d, p) ==
    IF p = "forecasts" THEN fetch_all_forecasts(d) ELSE fetch_lookup_tables(d, p)

-----------------------------------------------------------------------------
(* The browser session: the data editor (st.data_editor, num_rows="dynamic") *)

Pages == Tables

\* the columns the editor lets the user change (those not in disabled=[...])
EditableColumns(p) ==
    CASE p = "forecasts" -> {"forecast_amount"}
      [] p = "clients" -> {"client_name", "client_active", "client_start_date",
                           "client_end_date", "business_unit_id"}
      [] p = "verticals" -> {"business_vertical_name"}
      [] p = "units" -> {"business_unit_name", "business_vertical_id"}
      [] p = "work_types" -> {"work_type_name", "work_type_origin_type_id"}
      [] p = "work_type_origin_types" -> {"work_type_origin_type_name"}

\* what the user may put in a cell of the column
CellValues(col) ==
    CASE col = "forecast_amount" -> {100, 150}
      [] col \in {"business_vertical_id", "work_type_origin_type_id",
                  "business_unit_id"} -> {1, 2}
      [] col = "client_active" -> BOOLEAN
      [] col = "client_start_date" -> {"d1", "d2"}
      [] col = "client_end_date" -> {None, "d3"}
      [] OTHER -> Names

\* the row the editor appends: every cell empty
BlankRow(p) ==
    CASE p = "forecasts" ->
            [business_vertical_name |-> None, business_unit_name |-> None,
             client_name |-> None, work_type_name |-> None, dt |-> None,
             forecast_amount |-> NaN]
      [] p = "clients" ->
            [client_name |-> None, client_active |-> FALSE, client_start_date |-> None,
             client_end_date |-> None, business_unit_id |-> NaN]
      [] p = "verticals" -> [business_vertical_name |-> None]
      [] p = "units" -> [business_unit_name |-> None, business_vertical_id |-> NaN]
      [] p = "work_types" -> [work_type_name |-> None, work_type_origin_type_id |-> NaN]
      [] p = "work_type_origin_types" -> [work_type_origin_type_name |-> None]

-----------------------------------------------------------------------------
(* The save logic: what differs between the original and the edited frame *)

\* app.py: the columns the outer merge joins on, besides forecast_id
MergeOn == {"business_vertical_name", "business_unit_name", "client_name",
            "work_type_name", "dt"}

\* app.py: _merge == 'both' for the original row id
MergeBoth(orig, ed, id) ==
    /\ id \in DOMAIN orig
    /\ id \in DOMAIN ed
    /\ \A c \in MergeOn : orig[id][c] = ed[id][c]

\* app.py 225-228: rows in both frames whose amount differs
ForecastUpdates(orig, ed) ==
    {id \in DOMAIN orig :
        MergeBoth(orig, ed, id) /\ orig[id].forecast_amount # ed[id].forecast_amount}

\* app.py 244: _merge == 'left_only'
ForecastDeletions(orig, ed) ==
    {id \in DOMAIN orig : ~MergeBoth(orig, ed, id)}

\* a comparison that takes the end date as it is written
NormaliseEndDate_as_written(row) == row

\* 1_Clients.py 145-146: a missing end date is None on both sides
NormaliseEndDate(row) ==
    [row EXCEPT !.client_end_date = IF isna(@) THEN None ELSE @]

\* 1_Clients.py 132-148: edited rows whose id is in the original and whose
\* dict differs from the original row's
ClientUpdates(orig, ed) ==
    {id \in DOMAIN ed :
        id \in DOMAIN orig /\ NormaliseEndDate(ed[id]) # NormaliseEndDate(orig[id])}

\* 2_Business_Structure.py, 3_Work_Types.py: edited rows whose id is in the
\* original and for which row.equals(original_row) is false
LookupUpdates(orig, ed) ==
    {id \in DOMAIN ed : id \in DOMAIN orig /\ ed[id] # orig[id]}
\* the symmetric difference of the two indexes, in place of the difference
DeletedIds_either_side(orig, ed) ==
    (DOMAIN orig \ DOMAIN ed) \cup (DOMAIN ed \ DOMAIN orig)

\* set(original_df.index) - set(edited_df.index)
DeletedIds(orig, ed) == DOMAIN orig \ DOMAIN ed

UpdateSet(p, orig, ed) ==
    CASE p = "forecasts" -> ForecastUpdates(orig, ed)
      [] p = "clients" -> ClientUpdates(orig, ed)
      [] OTHER -> LookupUpdates(orig, ed)

DeleteSet(p, orig, ed) ==
    IF p = "forecasts" THEN ForecastDeletions(orig, ed) ELSE DeletedIds(orig, ed)

\* the JSON body of the PUT for an edited row
Payload(p, row) ==
    CASE p = "forecasts" -> [forecast_amount |-> row.forecast_amount]
      [] p = "clients" ->
            [row EXCEPT !.client_start_date = isoformat(@),
                        !.client_end_date = IF notna(@) THEN isoformat(@) ELSE None]
      [] OTHER -> row

\* The order of a loop over the rows.  On the forecast page the loops run over
\* the merged frame, which an outer merge sorts by its keys, forecast_id first.
\* On the other pages the update loop follows the order of the rows in the
\* frame (the order of a SELECT without ORDER BY) and the delete loop that of
\* a Python set: any order.
IsNext(p, id, pending) ==
    /\ id \in pending
    /\ p = "forecasts" => \A j \in pending : id <= j

\* whether the requests of the page's save sit in try/except RequestException
CatchesRequestException(p) == p \in {"forecasts", "clients"}

\* 1_Clients.py 133-136: the warning for a row added in the editor
AddedRowWarnings(p, orig, ed) ==
    IF p = "clients"
    THEN {[level |-> "warning", op |-> "added", id |-> id, status |-> 0,
           detail |-> "Please use the 'Add New Client' form."] :
              id \in DOMAIN ed \ DOMAIN orig}
    ELSE {}

ErrorMessage(op, id, status, detail) ==
    [level |-> "error", op |-> op, id |-> id, status |-> status, detail |-> detail]
\* a closing message that announces a success whatever the counts are
Summary_always_success(uc, dc) ==
    [level |-> "success", text |-> "saved", update_count |-> uc, delete_count |-> dc]

\* the last lines of every save: success (then cache clear and rerun), or
\* "No changes detected."
Summary(uc, dc) ==
    IF uc > 0 \/ dc > 0
    THEN [level |-> "success", text |-> "saved", update_count |-> uc, delete_count |-> dc]
    ELSE [level |-> "info", text |-> "No changes detected.",
          update_count |-> uc, delete_count |-> dc]

NoSummary == [level |-> "none", text |-> "", update_count |-> 0, delete_count |-> 0]

-----------------------------------------------------------------------------
(* database.py: the connection pool of the API process *)

\* db_pool = None
NoPool == 0

Threads == 1 .. MaxThreads

\* a pool is named after the thread that created it; the one init_db_pool
\* creates in the startup event is named after the main thread
MainThread == MaxThreads + 1

Idle == [pc |-> "idle", pool |-> NoPool, conn |-> NoPool, id |-> 0,
         r |-> Response(0, "", NoRow, NoRow)]

\* .streamlit/secrets.toml: present with its [postgres] section, absent, or
\* present without the section
Secrets == {"ok", "nofile", "nosection"}

\* whether the server runs the application's startup and shutdown events
Lifespans == {"on", "off"}

\* exit(1) in the startup event ends the process: with status 1, or with the
\* status the server gives a failed startup
FailureStatuses == {1, 3}

\* the process after a startup that created the pool, no request in flight
Running ==
    /\ db_pool = MainThread
    /\ pools = {MainThread}
    /\ conns = {}
    /\ thread = [t \in Threads |-> Idle]
    /\ process = [state |-> "serving", status |-> 0, init_failed |-> FALSE]
    /\ config = [secrets |-> "ok", lifespan |-> "on"]

-----------------------------------------------------------------------------
(* Initial state *)

Init ==
    /\ db = InitDb
    /\ serial = InitSerial
    /\ resp = NoResponse
    /\ calls = 0
    /\ page = "none"
    /\ original = <<>>
    /\ edited = <<>>
    /\ pc = "idle"
    /\ updates = {}
    /\ deletions = {}
    /\ update_count = 0
    /\ delete_count = 0
    /\ messages = {}
    /\ summary = NoSummary
    /\ sent = <<>>
    /\ edits = 0
    /\ others = 0
    /\ framework \in Frameworks
    /\ Running

-----------------------------------------------------------------------------
(* The browser session: actions *)

\* the page script runs: the table is fetched and, unless it is empty, shown in
\* the data editor.  A session stays on the page it opened first; opening it
\* again is a reload.
OpenPage(p) ==
    /\ pc \in {"idle", "editing", "raised"}
    /\ page \in {"none", p}
    /\ page' = p
    /\ original' = Fetch(db, p)
    /\ edited' = Fetch(db, p)
    /\ pc' = IF DOMAIN db[p] = {} THEN "idle" ELSE "editing"
    /\ updates' = {}
    /\ deletions' = {}
    /\ update_count' = 0
    /\ delete_count' = 0
    /\ messages' = {}
    /\ summary' = NoSummary
    /\ sent' = <<>>
    /\ UNCHANGED <<db, serial, resp, calls, framework, procVars, edits, others>>

Editing == pc \in {"editing", "raised"} /\ edits < MaxEdits

\* any interaction with a widget reruns the page script: what the last run
\* displayed is gone and its locals are new
Rerun ==
    /\ pc' = "editing"
    /\ updates' = {}
    /\ deletions' = {}
    /\ update_count' = 0
    /\ delete_count' = 0
    /\ messages' = {}
    /\ summary' = NoSummary
    /\ sent' = <<>>

\* the user changes one cell of a row
EditCell(id, col, v) ==
    /\ Editing
    /\ id \in DOMAIN edited
    /\ id # NewRowId
    /\ col \in EditableColumns(page)
    /\ v \in CellValues(col)
    /\ edited[id][col] # v
    /\ edited' = [edited EXCEPT ![id][col] = v]
    /\ edits' = edits + 1
    /\ Rerun
    /\ UNCHANGED <<db, serial, resp, calls, framework, procVars, others, page, original>>

\* the user removes a row
RemoveRow(id) ==
    /\ Editing
    /\ id \in DOMAIN edited
    /\ edited' = [j \in DOMAIN edited \ {id} |-> edited[j]]
    /\ edits' = edits + 1
    /\ Rerun
    /\ UNCHANGED <<db, serial, resp, calls, framework, procVars, others, page, original>>

\* the user appends a row: its id cell is disabled and stays empty
AddRow ==
    /\ Editing
    /\ NewRowId \notin DOMAIN edited
    /\ edited' = [j \in DOMAIN edited \cup {NewRowId} |->
                     IF j = NewRowId THEN BlankRow(page) ELSE edited[j]]
    /\ edits' = edits + 1
    /\ Rerun
    /\ UNCHANGED <<db, serial, resp, calls, framework, procVars, others, page, original>>

\* the save button is pressed: the counters start at 0 and the rows to update
\* and to delete are those the comparison of the two frames gives
SaveClick ==
    /\ pc \in {"editing", "raised"}
    /\ pc' = "saving"
    /\ updates' = UpdateSet(page, original, edited)
    /\ deletions' = DeleteSet(page, original, edited)
    /\ update_count' = 0
    /\ delete_count' = 0
    /\ messages' = AddedRowWarnings(page, original, edited)
    /\ summary' = NoSummary
    /\ sent' = <<>>
    /\ UNCHANGED <<db, serial, resp, calls, framework, procVars, others, page, original, edited, edits>>

\* one pass of the update loop: requests.put for a changed row.  ok says whether
\* the request reached the API; when it did not, requests raises
\* RequestException, which only some pages catch.
DispatchUpdate(id, ok) ==
    /\ pc = "saving"
    /\ IsNext(page, id, updates)
    /\ LET body == Payload(page, edited[id])
           r == Put(db, page, id, body)
       IN  /\ sent' = Append(sent, [method |-> "PUT", id |-> id, body |-> body,
                                    status |-> IF ok THEN r.status ELSE 0])
           /\ updates' = updates \ {id}
           /\ IF ok
              THEN /\ db' = r.db
                   /\ update_count' = IF r.status = 200 THEN update_count + 1
                                      ELSE update_count
                   /\ messages' = IF r.status = 200 THEN messages
                                  ELSE messages \cup
                                       {ErrorMessage("update", id, r.status, r.detail)}
                   /\ pc' = pc
              ELSE /\ UNCHANGED <<db, update_count>>
                   /\ IF CatchesRequestException(page)
                      THEN /\ messages' = messages \cup
                                  {ErrorMessage("update", id, 0, "RequestException")}
                           /\ pc' = pc
                      ELSE /\ messages' = messages
                           /\ pc' = "raised"
    /\ UNCHANGED <<serial, resp, calls, framework, procVars, others, page, original, edited, deletions,
                   delete_count, summary, edits>>
\* a delete loop that does not wait for the update loop
UpdateLoopEnded_not_awaited(pending) == TRUE

\* the delete loop stands after the update loop in the handler: control reaches
\* it once the update loop has run over every row of its frame
UpdateLoopEnded(pending) == pending = {}

\* one pass of the delete loop, entered after the update loop has ended
DispatchDelete(id, ok) ==
    /\ pc = "saving"
    /\ UpdateLoopEnded(updates)
    /\ IsNext(page, id, deletions)
    /\ LET r == DeleteRequest(db, page, id)
       IN  /\ sent' = Append(sent, [method |-> "DELETE", id |-> id, body |-> NoRow,
                                    status |-> IF ok THEN r.status ELSE 0])
           /\ deletions' = deletions \ {id}
           /\ IF ok
              THEN /\ db' = r.db
                   /\ delete_count' = IF r.status = 200 THEN delete_count + 1
                                      ELSE delete_count
                   /\ messages' = IF r.status = 200 THEN messages
                                  ELSE messages \cup
                                       {ErrorMessage("delete", id, r.status, r.detail)}
                   /\ pc' = pc
              ELSE /\ UNCHANGED <<db, delete_count>>
                   /\ IF CatchesRequestException(page)
                      THEN /\ messages' = messages \cup
                                  {ErrorMessage("delete", id, 0, "RequestException")}
                           /\ pc' = pc
                      ELSE /\ messages' = messages
                           /\ pc' = "raised"
    /\ UNCHANGED <<serial, resp, calls, framework, procVars, others, page, original, edited, updates,
                   update_count, summary, edits>>

\* both loops have ended: the summary.  After a success the caches are cleared
\* and st.rerun() is called.
Report ==
    /\ pc = "saving"
    /\ updates = {}
    /\ deletions = {}
    /\ summary' = Summary(update_count, delete_count)
    /\ pc' = IF update_count > 0 \/ delete_count > 0 THEN "rerun" ELSE "editing"
    /\ UNCHANGED <<db, serial, resp, calls, framework, procVars, others, page, original, edited, updates,
                   deletions, update_count, delete_count, messages, sent, edits>>

\* the rerun after a successful save: the caches were cleared, so the frame is
\* fetched again
ScriptRerun ==
    /\ pc = "rerun"
    /\ original' = Fetch(db, page)
    /\ edited' = Fetch(db, page)
    /\ Rerun
    /\ UNCHANGED <<db, serial, resp, calls, framework, procVars, others, page, edits>>

-----------------------------------------------------------------------------
(* Requests made to the API directly *)

RequestIds == 1 .. 4

\* bodies of PUT requests, per table
PutBodies(t) ==
    CASE t = "verticals" ->
            {[business_vertical_name |-> n] : n \in {"b", "c", LongName}}
      [] t = "work_type_origin_types" ->
            {[c \in UniqueColumns(t) |-> n] : n \in {"b", "c"}}
      [] t = "units" ->
            {[business_unit_name |-> n, business_vertical_id |-> v] :
                n \in {"b", "c"}, v \in {1, 4}}
      [] t = "work_types" ->
            {[work_type_name |-> n, work_type_origin_type_id |-> v] :
                n \in {"b", "c"}, v \in {1, 4}}
      [] t = "clients" ->
            {[client_name |-> n, client_active |-> FALSE,
              client_start_date |-> "2025-12-01", client_end_date |-> None,
              business_unit_id |-> u] : n \in {"b", "c"}, u \in {2, 4}}
      [] t = "forecasts" ->
            {[forecast_amount |-> a] : a \in {150, -5}} \cup
            {[forecast_amount |-> 150, dt |-> "2025-12-01", client_id |-> 2,
              business_unit_id |-> 2, work_type_id |-> 2, forecast_name |-> "c"],
             [dt |-> "2025-12-01"]}

\* bodies of POST /forecasts/
PostForecastBodies ==
    {[client_id |-> c, business_unit_id |-> u, work_type_id |-> 1, dt |-> dt,
      forecast_amount |-> a, forecast_name |-> "c"] :
        c \in {1, 2, 4}, u \in {1, 2}, dt \in {"2025-11-01", "2026-01-01"},
        a \in {150, -5}}

ApiPut(t, id, body) ==
    LET r == Put(db, t, id, body)
    IN  /\ db' = r.db
        /\ resp' = Exchange("PUT", t, id, body, r)
        /\ UNCHANGED serial

ApiDelete(t, id) ==
    LET r == DeleteRequest(db, t, id)
    IN  /\ db' = r.db
        /\ resp' = Exchange("DELETE", t, id, NoRow, r)
        /\ UNCHANGED serial

ApiPostForecast(body) ==
    LET r == Post(db, serial, "forecasts", body)
    IN  /\ db' = r.db
        /\ serial' = r.serial
        /\ resp' = Exchange("POST", "forecasts", 0, body, r)

PutRequest ==
    /\ calls < MaxCalls
    /\ \E t \in Tables, id \in RequestIds : \E body \in PutBodies(t) : ApiPut(t, id, body)
    /\ calls' = calls + 1
    /\ UNCHANGED <<uiVars, others, framework, procVars>>

DeleteRequestMade ==
    /\ calls < MaxCalls
    /\ \E t \in Tables, id \in RequestIds : ApiDelete(t, id)
    /\ calls' = calls + 1
    /\ UNCHANGED <<uiVars, others, framework, procVars>>

PostForecastRequest ==
    /\ calls < MaxCalls
    /\ \E body \in PostForecastBodies : ApiPostForecast(body)
    /\ calls' = calls + 1
    /\ UNCHANGED <<uiVars, others, framework, procVars>>

\* bodies of POST requests to the lookup endpoints
PostBodies(t) ==
    CASE t \in {"verticals", "work_type_origin_types"} ->
            {[c \in UniqueColumns(t) |-> n] : n \in {"a", "c", LongName}}
      [] t = "units" ->
            {[business_unit_name |-> n, business_vertical_id |-> v] :
                n \in {"a", "c"}, v \in {1, 4}}
      [] t = "work_types" ->
            {[work_type_name |-> n, work_type_origin_type_id |-> v] :
                n \in {"a", "c"}, v \in {1, 4}}
      [] t = "clients" ->
            {[client_name |-> n, client_active |-> FALSE,
              client_start_date |-> "2025-12-01", client_end_date |-> e,
              business_unit_id |-> 1] : n \in {"a", "c"}, e \in {None, "2026-01-01"}} \cup
            {[client_name |-> "c", client_start_date |-> "2025-12-01",
              business_unit_id |-> u] : u \in {1, 4}}

ApiPost(t, body) ==
    LET r == Post(db, serial, t, body)
    IN  /\ db' = r.db
        /\ serial' = r.serial
        /\ resp' = Exchange("POST", t, 0, body, r)

ApiGet(t, id) ==
    /\ resp' = Exchange("GET", t, id, NoRow, Get(db, t, id))
    /\ UNCHANGED <<db, serial>>

PostRequest ==
    /\ calls < MaxCalls
    /\ \E t \in Tables \ {"forecasts"} : \E body \in PostBodies(t) : ApiPost(t, body)
    /\ calls' = calls + 1
    /\ UNCHANGED <<uiVars, others, framework, procVars>>

GetRequest ==
    /\ calls < MaxCalls
    /\ \E t \in Tables, id \in RequestIds : ApiGet(t, id)
    /\ calls' = calls + 1
    /\ UNCHANGED <<uiVars, others, framework, procVars>>

\* the query parameters of GET /forecasts/
Skips == {0, 1}
Limits == {1, 2, 100}

ApiListForecasts(skip, limit) ==
    /\ resp' = Exchange("GET", "forecasts", 0, [skip |-> skip, limit |-> limit],
                        get_db_conn(read_forecasts(db, skip, limit)))
    /\ UNCHANGED <<db, serial>>

ListRequest ==
    /\ \E skip \in Skips, limit \in Limits : ApiListForecasts(skip, limit)
    /\ UNCHANGED <<calls, uiVars, others, framework, procVars>>

ApiNext ==
    \/ PutRequest
    \/ DeleteRequestMade
    \/ PostForecastRequest
    \/ PostRequest
    \/ GetRequest

Spec == Init /\ [][ApiNext]_vars

-----------------------------------------------------------------------------
(* Another client, working on the table the browser session has open *)

\* the body another client sends to change one column of the stored row
OtherBody(t, row) ==
    CASE t = "forecasts" -> [forecast_amount |-> 175]
      [] t = "clients" -> [ClientJson(row) EXCEPT !.client_active = ~@]
      [] t = "units" -> [row EXCEPT !.business_vertical_id = 2]
      [] t = "work_types" -> [row EXCEPT !.work_type_origin_type_id = 2]
      [] t = "verticals" -> [row EXCEPT !.business_vertical_name = "c"]
      [] t = "work_type_origin_types" -> [row EXCEPT !.work_type_origin_type_name = "c"]

\* The save reads the store only through its requests, so a change another
\* client makes between the fetch and the click acts on the save exactly as the
\* same change made right after the click: only the latter is generated.
OtherActive == pc = "saving" /\ others < MaxOthers

OtherClientPut ==
    /\ OtherActive
    /\ \E id \in DOMAIN db[page] :
          db' = Put(db, page, id, OtherBody(page, db[page][id])).db
    /\ others' = others + 1
    /\ UNCHANGED <<uiVars, serial, resp, calls, framework, procVars>>

OtherClientDelete ==
    /\ OtherActive
    /\ \E id \in DOMAIN db[page] : db' = DeleteRequest(db, page, id).db
    /\ others' = others + 1
    /\ UNCHANGED <<uiVars, serial, resp, calls, framework, procVars>>

UiNext ==
    \/ \E p \in Pages : OpenPage(p)
    \/ \E id \in DOMAIN edited : \E col \in EditableColumns(page) :
          \E v \in CellValues(col) : EditCell(id, col, v)
    \/ \E id \in DOMAIN edited : RemoveRow(id)
    \/ AddRow
    \/ SaveClick
    \/ \E id \in updates, ok \in BOOLEAN : DispatchUpdate(id, ok)
    \/ \E id \in deletions, ok \in BOOLEAN : DispatchDelete(id, ok)
    \/ Report
    \/ ScriptRerun
    \/ OtherClientPut
    \/ OtherClientDelete

SpecUI == Init /\ [][UiNext]_vars

-----------------------------------------------------------------------------
(* The forecast list over the stores of two rows per lookup table and three *)
(* forecasts                                                                *)

\* the two names of a table's rows: a and b, either way round
NamePairs == {<<"a", "b">>, <<"b", "a">>}

\* the keys a forecast may have
ListKeys == {1, 2} \X {1, 2} \X {1, 2} \X {"d1", "d2"}

\* the store with the given names, the second unit in vertical v, and the
\* forecasts 1 to 3 with the keys k[1] to k[3]; ListStores takes the third
\* forecast as it is in InitDb
ListStore(vn, un, v, cn, wn, k) ==
    [InitDb EXCEPT
        !.verticals = [i \in {1, 2} |-> [business_vertical_name |-> vn[i]]],
        !.units = [i \in {1, 2} |->
                      [business_unit_name |-> un[i],
                       business_vertical_id |-> IF i = 2 THEN v ELSE 1]],
        !.clients = [i \in {1, 2} |-> [InitDb.clients[i] EXCEPT !.client_name = cn[i]]],
        !.work_types = [i \in {1, 2} |->
                           [InitDb.work_types[i] EXCEPT !.work_type_name = wn[i]]],
        !.forecasts = [i \in {1, 2, 3} |->
                          [InitDb.forecasts[i] EXCEPT
                              !.client_id = k[i][1], !.business_unit_id = k[i][2],
                              !.work_type_id = k[i][3], !.dt = k[i][4]]]]

ListStores ==
    {ListStore(vn, un, v, cn, wn, k) :
        vn \in NamePairs, un \in NamePairs, v \in {1, 2}, cn \in NamePairs,
        wn \in {<<"a", "b">>},
        k \in {x \in [{1, 2, 3} -> ListKeys] :
                  /\ x[3] = <<1, 1, 1, "d1">>
                  /\ \A i, j \in {1, 2, 3} : i # j => x[i] # x[j]}}

InitList ==
    /\ db \in ListStores
    /\ serial = InitSerial
    /\ resp = NoResponse
    /\ calls = 0
    /\ page = "none"
    /\ original = <<>>
    /\ edited = <<>>
    /\ pc = "idle"
    /\ updates = {}
    /\ deletions = {}
    /\ update_count = 0
    /\ delete_count = 0
    /\ messages = {}
    /\ summary = NoSummary
    /\ sent = <<>>
    /\ edits = 0
    /\ others = 0
    /\ framework \in Frameworks
    /\ Running

ListNext == ListRequest

SpecList == InitList /\ [][ListNext]_vars

-----------------------------------------------------------------------------
(* The API process: startup, the request threads in get_db_conn, shutdown *)

InitPool ==
    /\ db = InitDb
    /\ serial = InitSerial
    /\ resp = NoResponse
    /\ calls = 0
    /\ page = "none"
    /\ original = <<>>
    /\ edited = <<>>
    /\ pc = "idle"
    /\ updates = {}
    /\ deletions = {}
    /\ update_count = 0
    /\ delete_count = 0
    /\ messages = {}
    /\ summary = NoSummary
    /\ sent = <<>>
    /\ edits = 0
    /\ others = 0
    /\ framework \in Frameworks
    /\ db_pool = NoPool
    /\ pools = {}
    /\ conns = {}
    /\ thread = [t \in Threads |-> Idle]
    /\ process = [state |-> "starting", status |-> 0, init_failed |-> FALSE]
    /\ config \in [secrets : Secrets, lifespan : Lifespans]

notProc == <<db, serial, calls, uiVars, others, framework>>

\* fx_api.py startup_event, run by the server in the main thread before any
\* request: init_db_pool.  A server that does not run the events starts
\* serving with no pool.
Startup ==
    /\ process.state = "starting"
    /\ IF config.lifespan = "off"
       THEN /\ process' = [process EXCEPT !.state = "serving"]
            /\ UNCHANGED <<db_pool, pools>>
       ELSE IF config.secrets = "ok"
       THEN /\ db_pool' = MainThread
            /\ pools' = pools \cup {MainThread}
            /\ process' = [process EXCEPT !.state = "serving"]
       ELSE /\ \E status \in FailureStatuses :
                  process' = [state |-> "exited", status |-> status, init_failed |-> TRUE]
            /\ UNCHANGED <<db_pool, pools>>
    /\ UNCHANGED <<notProc, resp, conns, thread, config>>

\* a request for GET /verticals/{id} is given to a thread: get_db_conn is called
Request(t, id) ==
    /\ process.state = "serving"
    /\ thread[t].pc = "idle"
    /\ thread' = [thread EXCEPT ![t] = [Idle EXCEPT !.pc = "called", !.id = id]]
    /\ UNCHANGED <<notProc, resp, db_pool, pools, conns, process, config>>

\* get_db_conn: if db_pool is None: init_db_pool()
GetDbConnCheck(t) ==
    /\ process.state = "serving"
    /\ thread[t].pc = "called"
    /\ thread' = [thread EXCEPT ![t].pc = IF db_pool = NoPool THEN "init" ELSE "getconn"]
    /\ UNCHANGED <<notProc, resp, db_pool, pools, conns, process, config>>

\* init_db_pool: if db_pool is None:
InitDbPoolCheck(t) ==
    /\ process.state = "serving"
    /\ thread[t].pc = "init"
    /\ thread' = [thread EXCEPT ![t].pc = IF db_pool = NoPool THEN "load" ELSE "getconn"]
    /\ UNCHANGED <<notProc, resp, db_pool, pools, conns, process, config>>

\* init_db_pool: the secrets are read and ThreadedConnectionPool(1, 20, ...) is
\* created.  Without the file or the section the thread calls exit(1):
\* SystemExit is raised in a request thread, and the server either lets it
\* end the process or answers the request 500 and goes on.
InitDbPoolLoad(t) ==
    /\ process.state = "serving"
    /\ thread[t].pc = "load"
    /\ IF config.secrets = "ok"
       THEN /\ pools' = pools \cup {t}
            /\ thread' = [thread EXCEPT ![t].pc = "assign", ![t].pool = t]
            /\ UNCHANGED <<process, resp>>
       ELSE /\ \/ /\ process' = [state |-> "exited", status |-> 1, init_failed |-> TRUE]
                  /\ thread' = [u \in Threads |-> Idle]
                  /\ resp' = resp
               \/ /\ process' = [process EXCEPT !.init_failed = TRUE]
                  /\ thread' = [thread EXCEPT ![t] = Idle]
                  /\ resp' = Exchange("GET", "verticals", thread[t].id, NoRow,
                                      InternalServerError(db))
            /\ UNCHANGED pools
    /\ UNCHANGED <<notProc, db_pool, conns, config>>

\* init_db_pool: db_pool = <the pool created>.  A pool the global named before
\* is named by nothing any more and is collected.
InitDbPoolAssign(t) ==
    /\ process.state = "serving"
    /\ thread[t].pc = "assign"
    /\ db_pool' = thread[t].pool
    /\ pools' = (pools \ {db_pool}) \cup {thread[t].pool}
    /\ thread' = [thread EXCEPT ![t].pc = "getconn"]
    /\ UNCHANGED <<notProc, resp, conns, process, config>>

\* get_db_conn: conn = db_pool.getconn()
GetConn(t) ==
    /\ process.state = "serving"
    /\ thread[t].pc = "getconn"
    /\ db_pool # NoPool
    /\ conns' = conns \cup {<<t, db_pool>>}
    /\ thread' = [thread EXCEPT ![t].pc = "yield", ![t].conn = db_pool]
    /\ UNCHANGED <<notProc, resp, db_pool, pools, process, config>>

\* get_db_conn: yield conn.  The endpoint runs: read_vertical returns the row
\* or raises HTTPException(404).
Endpoint(t) ==
    /\ process.state = "serving"
    /\ thread[t].pc = "yield"
    /\ thread' = [thread EXCEPT ![t].pc = "finally", ![t].r = read_vertical(db, thread[t].id)]
    /\ UNCHANGED <<notProc, resp, db_pool, pools, conns, process, config>>

\* db_pool.putconn(conn), for the connection the thread took from pool
putconn(held, t, pool) == held \ {<<t, pool>>}

\* get_db_conn: an exception of the endpoint, thrown in at the yield, is caught
\* and printed; finally: db_pool.putconn(conn).  putconn raises PoolError for
\* a connection the pool did not hand out, and the request is then answered
\* as it was or 500, depending on when the framework runs this code.
Finally(t) ==
    /\ process.state = "serving"
    /\ thread[t].pc = "finally"
    /\ IF db_pool = thread[t].conn
       THEN /\ conns' = putconn(conns, t, thread[t].conn)
            /\ resp' = Exchange("GET", "verticals", thread[t].id, NoRow,
                                get_db_conn(thread[t].r))
       ELSE /\ conns' = conns
            /\ \E r \in {get_db_conn(thread[t].r), InternalServerError(db)} :
                  resp' = Exchange("GET", "verticals", thread[t].id, NoRow, r)
    /\ thread' = [thread EXCEPT ![t] = Idle]
    /\ UNCHANGED <<notProc, db_pool, pools, process, config>>

\* fx_api.py shutdown_event, run once no request is in flight: close_db_pool.
\* A server that does not run the events just stops.
Shutdown ==
    /\ process.state = "serving"
    /\ \A t \in Threads : thread[t].pc = "idle"
    /\ IF config.lifespan = "on" /\ db_pool # NoPool
       THEN /\ pools' = pools \ {db_pool}
            /\ db_pool' = NoPool
       ELSE UNCHANGED <<db_pool, pools>>
    /\ process' = [process EXCEPT !.state = "stopped"]
    /\ UNCHANGED <<notProc, resp, conns, thread, config>>

PoolNext ==
    \/ Startup
    \/ \E t \in Threads, id \in {1, 3} : Request(t, id)
    \/ \E t \in Threads : GetDbConnCheck(t)
    \/ \E t \in Threads : InitDbPoolCheck(t)
    \/ \E t \in Threads : InitDbPoolLoad(t)
    \/ \E t \in Threads : InitDbPoolAssign(t)
    \/ \E t \in Threads : GetConn(t)
    \/ \E t \in Threads : Endpoint(t)
    \/ \E t \in Threads : Finally(t)
    \/ Shutdown

SpecPool == InitPool /\ [][PoolNext]_vars

-----------------------------------------------------------------------------
(* What the claims speak of *)

\* the save is over: its summary is displayed, or an exception ended the script
SaveOver == pc = "raised" \/ summary # NoSummary

SentIds(method) == {sent[i].id : i \in {j \in DOMAIN sent : sent[j].method = method}}

SentCount(method) == Cardinality({j \in DOMAIN sent : sent[j].method = method})

\* two cells hold the same value; an end date missing on both sides is the same
\* value whichever way it is written
SameCell(c, a, b) == a = b \/ (c = "client_end_date" /\ isna(a) /\ isna(b))

\* the columns of a row the user changed
ChangedColumns(p, o, e) == {c \in EditableColumns(p) : ~SameCell(c, o[c], e[c])}

\* the ids in both frames whose mutable columns differ
ChangedIds ==
    {id \in DOMAIN original \cap DOMAIN edited :
        ChangedColumns(page, original[id], edited[id]) # {}}

\* the ids in the original frame and not in the edited one
RemovedIds == DOMAIN original \ DOMAIN edited

(* C1: once a save is over, an update request has been dispatched for exactly
   the ids present in both frames whose mutable columns differ, one each. *)
C1_UpdateForEveryChangedRow ==
    SaveOver =>
        /\ SentIds("PUT") = ChangedIds
        /\ SentCount("PUT") = Cardinality(ChangedIds)

(* C2: once a save is over, a delete request has been dispatched for exactly
   the ids present in the original frame and absent from the edited one, one
   each. *)
C2_DeleteForEveryRemovedRow ==
    SaveOver =>
        /\ SentIds("DELETE") = RemovedIds
        /\ SentCount("DELETE") = Cardinality(RemovedIds)

(* C3: a save of an edited frame equal to the original one dispatches no
   request, reports "No changes detected.", and no step of the session changes
   the store while the two frames are equal. *)
C3_EqualFramesSaveNothing ==
    /\ []((edited = original /\ pc = "saving") =>
              (updates = {} /\ deletions = {} /\ sent = <<>>))
    /\ []((edited = original /\ SaveOver) =>
              (sent = <<>> /\ summary.text = "No changes detected."))
    /\ [][(edited = original /\ others' = others) => db' = db]_vars

\* a save of an unedited, non-empty frame has been reported
C3_Witness ==
    /\ summary.level = "info"
    /\ DOMAIN original # {}
    /\ edited = original
    /\ sent = <<>>

\* the frames differ by rows added in the editor only
OnlyAddedRows ==
    /\ DOMAIN edited \ DOMAIN original # {}
    /\ DOMAIN original \subseteq DOMAIN edited
    /\ \A id \in DOMAIN original : edited[id] = original[id]

(* C4: no request of a save concerns a row that was added in the editor: every
   request is a PUT or a DELETE for an id of the original frame, the session
   creates no row, and while the frames differ by added rows only no request
   is sent and the session leaves the store unchanged. *)
C4_AddedRowsProduceNoOperation ==
    /\ [](\A i \in DOMAIN sent :
              /\ sent[i].method \in {"PUT", "DELETE"}
              /\ sent[i].id \in DOMAIN original)
    /\ [](OnlyAddedRows => (sent = <<>> /\ updates = {} /\ deletions = {}))
    /\ []((OnlyAddedRows /\ summary # NoSummary) =>
              summary.text = "No changes detected.")
    /\ [][serial' = serial]_vars
    /\ [][(OnlyAddedRows /\ others' = others) => db' = db]_vars

\* a save of a frame with an added row and a changed row has gone through: the
\* changed row was sent, the added row was not
C4_Witness ==
    /\ NewRowId \in DOMAIN edited
    /\ NewRowId \notin DOMAIN original
    /\ summary.level = "success"
    /\ sent # <<>>

(* C5: a save reports "No changes detected." exactly when it dispatched
   nothing; a save all of whose requests failed reports something else. *)
C5_TotalFailureNotReportedAsNoChanges ==
    summary # NoSummary =>
        (summary.text = "No changes detected." <=> sent = <<>>)

(* C6: a failed dispatch never ends the save: the handler does not raise, and
   when the save is over every update and delete of its sets has been
   dispatched. *)
C6_FailedDispatchDoesNotEndTheSave ==
    /\ pc # "raised"
    /\ SaveOver => (updates = {} /\ deletions = {})

\* the requests of a method that were answered 200
Succeeded(method) ==
    Cardinality({j \in DOMAIN sent : sent[j].method = method /\ sent[j].status = 200})

OpOf(method) == IF method = "PUT" THEN "update" ELSE "delete"

(* C7: once a save is over its summary is displayed, a success summary carries
   the number of updates and of deletes that were answered 200, and every
   request that failed has an error message with its id. *)
C7_CountsAndFailuresReported ==
    SaveOver =>
        /\ summary # NoSummary
        /\ summary.update_count = Succeeded("PUT")
        /\ summary.delete_count = Succeeded("DELETE")
        /\ \A j \in DOMAIN sent :
              sent[j].status # 200 =>
                  \E m \in messages :
                      /\ m.level = "error"
                      /\ m.op = OpOf(sent[j].method)
                      /\ m.id = sent[j].id

(* C8: in the requests of one save no DELETE precedes a PUT, and once a DELETE
   has been sent no update of the update set is left to dispatch. *)
C8_UpdatesBeforeDeletes ==
    /\ \A i, j \in DOMAIN sent :
          (sent[i].method = "DELETE" /\ sent[j].method = "PUT") => j < i
    /\ SentIds("DELETE") # {} => updates = {}

\* a save has sent an update and then a delete
C8_Witness ==
    \E i, j \in DOMAIN sent :
        /\ i < j
        /\ sent[i].method = "PUT"
        /\ sent[j].method = "DELETE"

(* C9: the body of every update request carries the columns the user changed
   in that row and no other column. *)
C9_UpdateCarriesOnlyChangedFields ==
    \A i \in DOMAIN sent :
        sent[i].method = "PUT" =>
            DOMAIN sent[i].body =
                ChangedColumns(page, original[sent[i].id], edited[sent[i].id])

\* the columns of a forecast that identify it
ForecastKey == {"business_unit_id", "client_id", "work_type_id", "dt"}

(* C10: no API operation changes the (business_unit_id, client_id,
   work_type_id, dt) of a forecast that exists before and after it, and a PUT
   on a forecast changes nothing in the store but the forecast_amount of the
   forecast it names, whatever its body carries. *)
C10_ForecastKeyImmutable ==
    [][/\ \A id \in DOMAIN db.forecasts \cap DOMAIN db'.forecasts :
             \A c \in ForecastKey : db'.forecasts[id][c] = db.forecasts[id][c]
       /\ (calls' # calls /\ resp'.method = "PUT" /\ resp'.table = "forecasts") =>
             /\ DOMAIN db'.forecasts = DOMAIN db.forecasts
             /\ \A id \in DOMAIN db.forecasts : \A c \in DOMAIN db.forecasts[id] :
                   db'.forecasts[id][c] # db.forecasts[id][c] =>
                       (id = resp'.id /\ c = "forecast_amount")
             /\ \A t \in Tables \ {"forecasts"} : db'[t] = db[t]]_vars

\* a PUT whose body carried the key columns with other values was answered 200
\* and changed the amount of the forecast
C10_Witness ==
    /\ resp.method = "PUT"
    /\ resp.table = "forecasts"
    /\ resp.status = 200
    /\ ForecastKey \subseteq DOMAIN resp.request
    /\ resp.id \in DOMAIN db.forecasts \cap DOMAIN InitDb.forecasts
    /\ db.forecasts[resp.id].forecast_amount = resp.request.forecast_amount
    /\ db.forecasts[resp.id].forecast_amount # InitDb.forecasts[resp.id].forecast_amount

\* the step is a request of the method to the table's endpoint
Served(method, t) == calls' # calls /\ resp'.method = method /\ resp'.table = t

\* the body is a valid forecast with the key of a stored forecast
DuplicatesForecast(body) ==
    /\ ForecastCreate(body) # ValidationError
    /\ \E id \in DOMAIN db.forecasts :
          \A c \in ForecastKey : db.forecasts[id][c] = ForecastCreate(body)[c]

(* C11: no two stored forecasts have the same (business_unit_id, client_id,
   work_type_id, dt), and a POST of a forecast with the key of a stored one is
   answered 400 "This forecast ... already exists." and leaves the store
   unchanged. *)
C11_DuplicateForecastRejected ==
    /\ [](\A i, j \in DOMAIN db.forecasts :
              i # j => \E c \in ForecastKey : db.forecasts[i][c] # db.forecasts[j][c])
    /\ [][(Served("POST", "forecasts") /\ DuplicatesForecast(resp'.request)) =>
              /\ resp'.status = 400
              /\ resp'.detail = "This forecast (client, BU, work type, date) already exists."
              /\ db' = db]_vars

\* the lookup tables, each with a UNIQUE name column
Lookups == Tables \ {"forecasts"}

NameColumn(t) == CHOOSE c \in UniqueColumns(t) : TRUE

\* the body carries the name of a stored row of the table
NameTaken(t, body) ==
    /\ NameColumn(t) \in DOMAIN body
    /\ \E id \in DOMAIN db[t] : db[t][id][NameColumn(t)] = body[NameColumn(t)]

(* C12: on every lookup table a POST whose name is the name of a stored row is
   answered 400 (the name already exists) and leaves the store unchanged:
   nothing is inserted and the stored row keeps its content. *)
C12_DuplicateNameRejected ==
    [][\A t \in Lookups :
          (Served("POST", t) /\ NameTaken(t, resp'.request)) =>
              (resp'.status = 400 /\ db' = db)]_vars

\* row id of table t is stored and a row of a child table references it
ReferencedByChild(t, id) ==
    id \in DOMAIN db[t] /\ ForeignKeyViolationOnDelete(db, t, id)

(* C13: a DELETE of a row that a child row references is answered 400 and
   leaves the store unchanged: the parent is kept and no child is deleted. *)
C13_ReferencedRowNotDeleted ==
    [][\A t \in Tables :
          (Served("DELETE", t) /\ ReferencedByChild(t, resp'.id)) =>
              (resp'.status = 400 /\ db' = db)]_vars

(* C14: in every reachable store every foreign key of every row (unit to
   vertical, client to unit, work type to origin, forecast to client, unit and
   work type) is the id of a stored row. *)
C14_ReferentialIntegrity ==
    \A r \in References :
        \A j \in DOMAIN db[r[1]] : db[r[1]][j][r[2]] \in DOMAIN db[r[3]]

\* a unit has been created after the vertical no unit referenced was deleted
C14_Witness ==
    /\ resp.method = "POST"
    /\ resp.table = "units"
    /\ resp.status = 200
    /\ DOMAIN db.verticals # DOMAIN InitDb.verticals
    /\ DOMAIN db.units # DOMAIN InitDb.units

(* C15: every stored forecast has an amount of 0 or more. *)
C15_AmountNeverNegative ==
    \A id \in DOMAIN db.forecasts : db.forecasts[id].forecast_amount >= 0

\* the request model the endpoint of the method and table declares for its body
Schema(method, t, body) ==
    CASE t = "verticals" -> BusinessVerticalCreate(body)
      [] t = "units" -> BusinessUnitCreate(body)
      [] t = "clients" -> ClientCreate(body)
      [] t = "work_types" -> WorkTypeCreate(body)
      [] t = "work_type_origin_types" -> WorkTypeOriginTypeCreate(body)
      [] t = "forecasts" ->
            IF method = "PUT" THEN ForecastUpdate(body) ELSE ForecastCreate(body)

\* what becomes of the request in the store as it is: the kind of its failure,
\* or "Ok"
Kind(method, t, id, body) ==
    IF method \in {"PUT", "POST"} /\ Schema(method, t, body) = ValidationError
    THEN "Validation"
    ELSE LET r == CASE method = "PUT" -> Update(db, t, id, Schema(method, t, body))
                    [] method = "POST" -> Insert(db, serial, t, Schema(method, t, body))
                    [] method = "DELETE" -> Delete(db, t, id)
                    [] method = "GET" -> [exc |-> "none", row |-> Select(db, t, id)]
         IN  CASE r.exc = "UniqueViolation" -> "Duplicate"
               [] r.exc = "ForeignKeyViolation" ->
                     IF method = "DELETE" THEN "ReferencedByChild" ELSE "InvalidReference"
               [] r.exc \notin {"none", "UniqueViolation", "ForeignKeyViolation"} ->
                     "Database"
               [] r.exc = "none" /\ r.row = NoRow -> "NotFound"
               [] OTHER -> "Ok"

ErrorKinds == {"Duplicate", "InvalidReference", "ReferencedByChild", "NotFound"}

\* the bodies a request of the method to the table may carry
Bodies(method, t) ==
    CASE method = "PUT" -> PutBodies(t)
      [] method = "POST" -> IF t = "forecasts" THEN PostForecastBodies ELSE PostBodies(t)
      [] OTHER -> {NoRow}

\* the status the API answers the request with in the store as it is
Signal(method, t, id, body) ==
    CASE method = "PUT" -> Put(db, t, id, body).status
      [] method = "POST" -> Post(db, serial, t, body).status
      [] method = "DELETE" -> DeleteRequest(db, t, id).status
      [] method = "GET" -> Get(db, t, id).status

(* C16: when a request fails with one of the kinds duplicate, InvalidReference,
   ReferencedByChild, NotFound, no request to the same endpoint that fails
   with another of these kinds is answered with the same status. *)
C16_ErrorKindsHaveDistinctSignals ==
    [][\A m \in {"PUT", "POST", "DELETE"}, t \in Tables :
          (Served(m, t) /\ Kind(m, t, resp'.id, resp'.request) \in ErrorKinds) =>
              \A id \in RequestIds, b \in Bodies(m, t) :
                  (/\ Kind(m, t, id, b) \in ErrorKinds
                   /\ Kind(m, t, id, b) # Kind(m, t, resp'.id, resp'.request))
                      => Signal(m, t, id, b) # resp'.status]_vars

\* the endpoints that take an id: update and delete of every table, get of
\* the tables that have one
ById == ({"PUT", "DELETE"} \X Tables) \cup ({"GET"} \X ReadableById)

(* C17: on every endpoint that takes an id, a request for an id that is not
   stored is answered with status 404 and leaves the store as it was. *)
C17_MissingIdIsNotFound ==
    [][\A e \in ById :
          (Served(e[1], e[2]) /\ Kind(e[1], e[2], resp'.id, resp'.request) = "NotFound")
              => (resp'.status = 404 /\ db' = db)]_vars

\* the texts of the database's own errors
RawDatabaseTexts ==
    {DatabaseErrorText(e) :
        e \in {"UniqueViolation", "ForeignKeyViolation", "StringDataRightTruncation"}}

(* C18: when the store operation of a create, update or delete request raises
   a database error, the answer is one of the domain errors (status 400 or
   404) and its detail is not the text of the database's error. *)
C18_NoRawDatabaseError ==
    [][\A m \in {"POST", "PUT", "DELETE"}, t \in Tables :
          (/\ Served(m, t)
           /\ Kind(m, t, resp'.id, resp'.request) \in
                 {"Duplicate", "InvalidReference", "ReferencedByChild", "Database"})
              => (resp'.status \in {400, 404} /\ resp'.detail \notin RawDatabaseTexts)]_vars

\* get(id) of the entity store, for the five lookup entities
crud_get(d, t, id) ==
    CASE t = "verticals" -> crud_get_business_vertical(d, id)
      [] t = "units" -> crud_get_business_unit(d, id)
      [] t = "clients" -> crud_get_client(d, id)
      [] t = "work_types" -> crud_get_work_type(d, id)
      [] t = "work_type_origin_types" -> crud_get_work_type_origin_type(d, id)

\* the row is the request's fields, the fields the request left out at their
\* defaults, and the id
InputPlusId(t, request, row) ==
    /\ DOMAIN row = DOMAIN Schema("POST", t, request) \cup {IdField(t)}
    /\ \A c \in DOMAIN request : row[c] = request[c]
    /\ \A c \in DOMAIN row \ (DOMAIN request \cup {IdField(t)}) :
            row[c] = jsonable(Schema("POST", t, request))[c]

(* C19: a create answered 200 returns the fields of the request and an id no
   row had; for the five lookup entities the store's get of that id returns
   the same row, and where the API has a get of an id, that get, made next,
   is answered 200 with the same row. *)
C19_CreateThenGet ==
    [][/\ \A t \in Tables :
            (Served("POST", t) /\ resp'.status = 200) =>
                /\ InputPlusId(t, resp'.request, resp'.body)
                /\ resp'.body[IdField(t)] \notin DOMAIN db[t]
                /\ resp'.body[IdField(t)] \in DOMAIN db'[t]
                /\ t \in Lookups =>
                      jsonable(crud_get(db', t, resp'.body[IdField(t)])) = resp'.body
       /\ \A t \in ReadableById :
            (/\ resp.method = "POST" /\ resp.table = t /\ resp.status = 200
             /\ Served("GET", t)
             /\ resp'.id = resp.body[IdField(t)])
                => (resp'.status = 200 /\ resp'.body = resp.body)]_vars

C19_Witness ==
    /\ resp.method = "GET" /\ resp.table = "clients" /\ resp.status = 200
    /\ resp.id \notin DOMAIN InitDb.clients
    /\ resp.body.client_end_date = "2026-01-01"

\* the ids of the rows the list endpoint of the table returns
ListedIds(d, t) ==
    IF t = "forecasts" THEN DOMAIN fetch_all_forecasts(d)
    ELSE {row[IdField(t)] : row \in SelectAll(d, t)}

\* the bodies of an update the database takes as they are
StorableBodies(t) ==
    {b \in PutBodies(t) :
        /\ Schema("PUT", t, b) # ValidationError
        /\ ~StringDataRightTruncation(t, Schema("PUT", t, b))}

\* the delete answered with the row as it was stored, and the row gone from
\* the store and from the list
HardDelete(t) ==
    /\ resp'.id \in DOMAIN db[t]
    /\ resp'.body = jsonable(WithId(t, resp'.id, db[t][resp'.id]))
    /\ resp'.id \notin DOMAIN db'[t]
    /\ resp'.id \notin ListedIds(db', t)

(* C20: a delete answered 200 returns the row as it was stored before, and
   afterwards the row is in no list and a get, an update and a delete of its
   id are answered with the NotFound status 404. *)
C20_HardDelete ==
    [][\A t \in Tables :
          (Served("DELETE", t) /\ resp'.status = 200) =>
              /\ HardDelete(t)
              /\ DeleteRequest(db', t, resp'.id).status = 404
              /\ \A b \in StorableBodies(t) : Put(db', t, resp'.id, b).status = 404
              /\ t \in ReadableById => Get(db', t, resp'.id).status = 404]_vars

\* the sort key of a row of the forecast list, read off its display names
DisplayKey(row) ==
    <<Collation(row.business_vertical_name), Collation(row.business_unit_name),
      Collation(row.client_name), Collation(row.work_type_name),
      Collation(fromisoformat(row.dt))>>

\* key k is lexicographically before key l, or equal to it
LexLeq(k, l) ==
    \/ k = l
    \/ \E n \in DOMAIN k : k[n] < l[n] /\ \A m \in 1 .. n - 1 : k[m] = l[m]

ForecastListed == resp.method = "GET" /\ resp.table = "forecasts" /\ resp.status = 200

(* C21: every answer of the forecast list, for every offset and limit, is in
   ascending lexicographic order of (vertical name, unit name, client name,
   work type name, date), and is the part of the whole ordered list the
   offset and limit ask for. *)
C21_ForecastListSorted ==
    ForecastListed =>
        LET rows == resp.body.rows
            all == read_forecasts(db, 0, 100).body.rows
        IN  /\ \A i, j \in DOMAIN rows :
                  i < j => LexLeq(DisplayKey(rows[i]), DisplayKey(rows[j]))
            /\ Len(all) = Cardinality(DOMAIN db.forecasts)
            /\ \A i \in DOMAIN rows : rows[i] = all[i + resp.request.skip]

\* a list of more than one row whose order of names is not the order of its ids
C21_Witness ==
    /\ ForecastListed
    /\ \E i, j \in DOMAIN resp.body.rows :
          i < j /\ resp.body.rows[i].forecast_id > resp.body.rows[j].forecast_id

\* the bodies of an update of the amount
AmountBodies == {b \in PutBodies("forecasts") : ForecastUpdate(b) # ValidationError}

\* the two orders in which an update of the amount and a delete of forecast id
\* arrive at the store as it is: the answers and the store they leave
UpdateThenDelete(id, b) ==
    LET u == Put(db, "forecasts", id, b)
        d == DeleteRequest(u.db, "forecasts", id)
    IN  [update |-> u, delete |-> d, db |-> d.db]

DeleteThenUpdate(id, b) ==
    LET d == DeleteRequest(db, "forecasts", id)
        u == Put(d.db, "forecasts", id, b)
    IN  [update |-> u, delete |-> d, db |-> u.db]

C30_ClientUpdateChangesOnlyTheClient ==
    [][Served("PUT", "clients") =>
          /\ \A t \in Tables \ {"clients"} : db'[t] = db[t]
          /\ DOMAIN db'.clients = DOMAIN db.clients
          /\ \A id \in DOMAIN db.clients \ {resp'.id} : db'.clients[id] = db.clients[id]
          /\ serial' = serial]_vars

\* a client moved to another unit whose forecasts still carry the old unit
C30_Witness ==
    /\ resp.method = "PUT" /\ resp.table = "clients" /\ resp.status = 200
    /\ resp.id \in DOMAIN db.clients \cap DOMAIN InitDb.clients
    /\ db.clients[resp.id].business_unit_id # InitDb.clients[resp.id].business_unit_id
    /\ \E f \in DOMAIN db.forecasts :
          /\ db.forecasts[f].client_id = resp.id
          /\ db.forecasts[f].business_unit_id = InitDb.clients[resp.id].business_unit_id

\* the columns of a page's frame that may be empty in the store
OptionalColumns(p) == IF p = "clients" THEN {"client_end_date"} ELSE {}

\* the rows in both frames with an optional cell missing on both sides and no
\* cell that differs
MissingOnBothSides ==
    {id \in DOMAIN original \cap DOMAIN edited :
        /\ \E c \in OptionalColumns(page) : isna(original[id][c]) /\ isna(edited[id][c])
        /\ \A c \in EditableColumns(page) \ OptionalColumns(page) :
                original[id][c] = edited[id][c]}

(* C25: while a save runs and once it is over, a row whose optional cell is
   missing in the original and in the edited frame, and whose other cells are
   equal, is not among the rows to update and no update request was sent
   for it. *)
C25_MissingOnBothSidesIsUnchanged ==
    (pc = "saving" \/ SaveOver) =>
        \A id \in MissingOnBothSides : id \notin updates /\ id \notin SentIds("PUT")

\* a save that sent an update for another row, over a row whose end date is
\* missing on both sides and written differently
C25_Witness ==
    /\ SaveOver
    /\ SentIds("PUT") # {}
    /\ \E id \in MissingOnBothSides :
          original[id].client_end_date # edited[id].client_end_date

\* row b was removed and row a, and no other row, was changed: renamed to the
\* name b has, nothing else of it touched
RenamedOver(a, b) ==
    /\ page \in Lookups
    /\ a # b
    /\ DOMAIN original \ DOMAIN edited = {b}
    /\ DOMAIN edited \ DOMAIN original = {}
    /\ ChangedIds = {a}
    /\ ChangedColumns(page, original[a], edited[a]) = {NameColumn(page)}
    /\ edited[a][NameColumn(page)] = original[b][NameColumn(page)]

\* the save ran to its summary, every request of it reached the API, and no
\* other client wrote meanwhile
SaveRanAlone ==
    /\ summary # NoSummary
    /\ others = 0
    /\ \A i \in DOMAIN sent : sent[i].status # 0

\* the store as the save left it: a under its old name, b gone, and the
\* summary of 0 updates and 1 deletion
RenameLostDeleteDone(a, b) ==
    /\ Len(sent) = 2
    /\ sent[1].method = "PUT" /\ sent[1].id = a /\ sent[1].status # 200
    /\ sent[2].method = "DELETE" /\ sent[2].id = b /\ sent[2].status = 200
    /\ a \in DOMAIN db[page]
    /\ db[page][a][NameColumn(page)] = original[a][NameColumn(page)]
    /\ b \notin DOMAIN db[page]
    /\ summary.update_count = 0 /\ summary.delete_count = 1

(* C28: after a save on a lookup editor in which row b was removed and row a
   renamed to b's name, b being referenced by no row, the rename was sent
   first and answered with the duplicate-name error 400, the delete was sent
   second and answered 200, the store has a under its old name and no b, and
   the summary reports 0 updates and 1 deletion. *)
C28_RenameBeforeDelete ==
    \A a, b \in DOMAIN original :
        (SaveRanAlone /\ RenamedOver(a, b)
            /\ \A r \in References : r[3] = page =>
                   \A j \in DOMAIN db[r[1]] : db[r[1]][j][r[2]] # b)
            => (RenameLostDeleteDone(a, b) /\ sent[1].status = 400)

\* the handler of the save button ends in this step
SaveEnds == pc = "saving" /\ pc' # "saving"

(* C29: when a save ends with an update or a delete that succeeded, the caches
   are cleared and the page is run again, and that run fetches the frame anew
   from the store; when it ends with none, the page is not run again and the
   fetched frame is kept. *)
C29_RefetchAfterSuccess ==
    [][/\ SaveEnds =>
            IF update_count' > 0 \/ delete_count' > 0
            THEN pc' = "rerun"
            ELSE pc' # "rerun" /\ original' = original
       /\ (pc = "rerun" /\ pc' # "rerun") =>
            (original' = Fetch(db', page) /\ edited' = original')]_vars

-----------------------------------------------------------------------------
(* The connection pool *)

(* C26: at every moment at most one connection pool exists, also while
   several request threads run get_db_conn and init_db_pool. *)
C26_AtMostOnePool == Cardinality(pools) <= 1

\* no request is in flight
Quiet == \A t \in Threads : thread[t].pc = "idle"

(* C22: once every operation in flight has ended, whether it succeeded or
   failed, no connection is still borrowed from a pool. *)
C22_NothingBorrowedWhenQuiet == Quiet => conns = {}

\* the thread leaves get_db_conn with its connection put back, its endpoint
\* having raised
ReleasedAfterFailure(t) ==
    /\ Finally(t)
    /\ thread[t].r.status # 200
    /\ <<t, thread[t].conn>> \in conns
    /\ <<t, thread[t].conn>> \notin conns'

(* C27: when an endpoint raised while its request held a connection and
   get_db_conn put the connection back, the caller is answered with the
   failure the endpoint raised, its status and its detail. *)
C27_FailurePropagates ==
    [][\A t \in Threads :
          ReleasedAfterFailure(t) =>
              /\ resp'.status = thread[t].r.status
              /\ resp'.detail = thread[t].r.detail]_vars

(* C24: once init_db_pool has run without the secrets file or without its
   postgres section, the process has ended with a failure status, no pool
   exists, and no request is in flight or served. *)
C24_MissingSecretsAreFatal ==
    process.init_failed =>
        /\ process.state = "exited"
        /\ process.status # 0
        /\ pools = {} /\ db_pool = NoPool
        /\ Quiet

=============================================================================
